---- MODULE Spec2Model ----
(***************************************************************************)
(* Model of src/oop.py: the order variants with their to_dict / from_dict  *)
(* codec, the OrderFactory, the customer's order history and the           *)
(* cancellation chain CallCenterOperator -> Manager -> Admin.              *)
(*                                                                         *)
(* Objects live in heaps: `orders` and `requests` are sequences whose      *)
(* index is the object's identity.  A call of handle is one action; the    *)
(* nested calls it makes through _next_handler are computed by the         *)
(* recursive operator `handle`, which also records the call trace.         *)
(***************************************************************************)
EXTENDS Integers, Sequences, FiniteSets

VARIABLES
    orders,         \* heap of Order objects (records of their attributes)
    order_history,  \* Customer.order_history: sequence of order references
    placed,         \* history: the arguments of the place_order calls so far
    requests,       \* heap of CancellationRequest objects
    next_handler,   \* Handler._next_handler of each handler object
    last,           \* history: what the last call did (trace, result, ...)
    data,           \* codec: the stored record (a dict) under reconstruction
    restored,       \* codec: the order from_dict produced, or NoOrder
    out,            \* codec: to_dict of the restored order, or NoRecord
    cls,            \* codec: the class the factory returned, or None
    raised          \* codec: the exception the last codec call raised

vars == <<orders, order_history, placed, requests, next_handler, last,
          data, restored, out, cls, raised>>

chainVars == <<orders, order_history, placed, requests, next_handler, last>>
codecVars == <<data, restored, out, cls, raised>>

-----------------------------------------------------------------------------
(* Bounds of the model *)

MaxOrders == 1          \* Order objects constructed in one run of the chain
MaxLedgerOrders == 2    \* Order objects constructed in one run of the ledger
MaxRequests == 1        \* CancellationRequest objects constructed in one run
MaxHistory == 3         \* place_order calls in one run
RecursionLimit == 4     \* nested handle calls before Python's RecursionError
MaxEdits == 2           \* fields of a stored record removed or overwritten

-----------------------------------------------------------------------------
(* Values *)

None == "None"
NoOrder == [cls |-> "None"]
NoRecord == [none |-> "None"]
NoException == [type |-> "none", arg |-> <<>>]

\* bool(reason) for a str: only the empty string is falsy
Truthy(s) == s # ""

Reasons == {"", "x"}

-----------------------------------------------------------------------------
(* Order variants: the constructors (Order.__init__ plus the subclass's own *)
(* attributes).  The attribute `cls` stands for type(self).                 *)

OnlineOrder(order_id, price, customer, order_date, status, items, payment_method) ==
    [cls |-> "OnlineOrder", order_id |-> order_id, price |-> price,
     customer |-> customer, order_date |-> order_date, status |-> status,
     items |-> items, payment_method |-> payment_method]

PhoneOrder(order_id, price, customer, order_date, status, operator_name) ==
    [cls |-> "PhoneOrder", order_id |-> order_id, price |-> price,
     customer |-> customer, order_date |-> order_date, status |-> status,
     operator_name |-> operator_name]

StoreOrder(order_id, price, customer, order_date, status, store_location) ==
    [cls |-> "StoreOrder", order_id |-> order_id, price |-> price,
     customer |-> customer, order_date |-> order_date, status |-> status,
     store_location |-> store_location]

\* a datetime value (naive, as datetime.now() returns it)
DateTime(y, mo, d, h, mi, s, us) ==
    [year |-> y, month |-> mo, day |-> d, hour |-> h, minute |-> mi,
     second |-> s, microsecond |-> us]

\* the orders the chain and the ledger are exercised with: one per variant,
\* priced below, at and above the Manager's limit
SampleOrders ==
    { OnlineOrder(1, 100, "ivan", DateTime(2024, 1, 5, 10, 30, 0, 0), "created",
                  <<[name |-> "laptop", qty |-> 1]>>, "card"),
      PhoneOrder(2, 500, "ivan", DateTime(2024, 1, 5, 10, 30, 0, 0), "created", "olga"),
      StoreOrder(3, 501, "ivan", DateTime(2024, 1, 5, 10, 30, 0, 0), "created", "moscow") }

-----------------------------------------------------------------------------
(* datetime.isoformat and datetime.fromisoformat.  A str is a sequence of   *)
(* one-character strings.                                                   *)

DigitChars == <<"0", "1", "2", "3", "4", "5", "6", "7", "8", "9">>

\* n printed in w decimal digits, zero-padded ("%0wd")
RECURSIVE Pad(_, _)
Pad(n, w) == IF w = 0 THEN <<>> ELSE Append(Pad(n \div 10, w - 1), DigitChars[(n % 10) + 1])

\* datetime.isoformat(): YYYY-MM-DDTHH:MM:SS, followed by .ffffff only when
\* the microsecond is not 0
isoformat(dt) ==
    Pad(dt.year, 4) \o <<"-">> \o Pad(dt.month, 2) \o <<"-">> \o Pad(dt.day, 2)
    \o <<"T">> \o Pad(dt.hour, 2) \o <<":">> \o Pad(dt.minute, 2)
    \o <<":">> \o Pad(dt.second, 2)
    \o (IF dt.microsecond # 0 THEN <<".">> \o Pad(dt.microsecond, 6) ELSE <<>>)

IsDigit(c) == \E i \in 1..10 : DigitChars[i] = c
DigitValue(c) == (CHOOSE i \in 1..10 : DigitChars[i] = c) - 1

AllDigits(s, i, j) == \A k \in i..j : k <= Len(s) /\ IsDigit(s[k])

\* the number written in s[i..j]
RECURSIVE Number(_, _, _)
Number(s, i, j) == IF j < i THEN 0 ELSE 10 * Number(s, i, j - 1) + DigitValue(s[j])

IsLeap(y) == (y % 4 = 0 /\ y % 100 # 0) \/ y % 400 = 0

DaysInMonth(y, m) ==
    IF m = 2 THEN (IF IsLeap(y) THEN 29 ELSE 28)
    ELSE IF m \in {4, 6, 9, 11} THEN 30 ELSE 31

\* the time part HH[:MM[:SS[.fff[fff]]]] of an ISO string is well-formed
TimeShape(t) ==
    /\ Len(t) \in {2, 5, 8, 12, 15}
    /\ AllDigits(t, 1, 2)
    /\ Len(t) >= 5 => (t[3] = ":" /\ AllDigits(t, 4, 5))
    /\ Len(t) >= 8 => (t[6] = ":" /\ AllDigits(t, 7, 8))
    /\ Len(t) >= 12 => (t[9] = "." /\ AllDigits(t, 10, Len(t)))

\* variant of Fraction that reads milliseconds only
Fraction_millis(t) ==
    IF Len(t) \in {12, 15} THEN 1000 * Number(t, 10, 12) ELSE 0

\* the microseconds written in the fraction of the time part
Fraction(t) ==
    IF Len(t) = 15 THEN Number(t, 10, 15)
    ELSE IF Len(t) = 12 THEN 1000 * Number(t, 10, 12)
    ELSE 0

\* datetime.fromisoformat(s), for the formats every Python 3.7+ accepts:
\* YYYY-MM-DD, optionally followed by one separator character and
\* HH[:MM[:SS[.fff[fff]]]].  [ok |-> FALSE] stands for ValueError.
fromisoformat(s) ==
    LET dateOk == /\ Len(s) >= 10
                  /\ AllDigits(s, 1, 4) /\ s[5] = "-"
                  /\ AllDigits(s, 6, 7) /\ s[8] = "-"
                  /\ AllDigits(s, 9, 10)
        t == IF Len(s) > 11 THEN SubSeq(s, 12, Len(s)) ELSE <<>>
        shapeOk == dateOk /\ (Len(s) = 10 \/ (Len(s) > 11 /\ TimeShape(t)))
        y == Number(s, 1, 4)
        mo == Number(s, 6, 7)
        d == Number(s, 9, 10)
        h == IF Len(t) >= 2 THEN Number(t, 1, 2) ELSE 0
        mi == IF Len(t) >= 5 THEN Number(t, 4, 5) ELSE 0
        sec == IF Len(t) >= 8 THEN Number(t, 7, 8) ELSE 0
    IN  IF /\ shapeOk
           /\ y >= 1 /\ mo \in 1..12 /\ d \in 1..DaysInMonth(y, mo)
           /\ h < 24 /\ mi < 60 /\ sec < 60
        THEN [ok |-> TRUE, value |-> DateTime(y, mo, d, h, mi, sec, Fraction(t))]
        ELSE [ok |-> FALSE]

-----------------------------------------------------------------------------
(* The codec: to_dict and from_dict of each variant.  A dict is a function  *)
(* from keys to values.                                                     *)

OnlineOrder_to_dict(self) ==
    [type |-> "online", order_id |-> self.order_id, price |-> self.price,
     customer |-> self.customer, order_date |-> isoformat(self.order_date),
     status |-> self.status, items |-> self.items,
     payment_method |-> self.payment_method]

PhoneOrder_to_dict(self) ==
    [type |-> "phone", order_id |-> self.order_id, price |-> self.price,
     customer |-> self.customer, order_date |-> isoformat(self.order_date),
     status |-> self.status, operator_name |-> self.operator_name]

StoreOrder_to_dict(self) ==
    [type |-> "store", order_id |-> self.order_id, price |-> self.price,
     customer |-> self.customer, order_date |-> isoformat(self.order_date),
     status |-> self.status, store_location |-> self.store_location]

\* order.to_dict(): dispatch on the object's class
to_dict(self) ==
    CASE self.cls = "OnlineOrder" -> OnlineOrder_to_dict(self)
      [] self.cls = "PhoneOrder"  -> PhoneOrder_to_dict(self)
      [] self.cls = "StoreOrder"  -> StoreOrder_to_dict(self)

KeyError(key) == [type |-> "KeyError", arg |-> <<key>>]
ValueError == [type |-> "ValueError", arg |-> <<"Invalid isoformat string">>]

\* The arguments of cls(...) are evaluated left to right: data[key] raises
\* KeyError for the first absent key, and fromisoformat(data["order_date"])
\* raises ValueError when that key is read.  The result is the first
\* exception raised while the keys are read in this order, or NoException.
RECURSIVE ReadKeys(_, _, _)
ReadKeys(dict, keys, i) ==
    IF i > Len(keys) THEN NoException
    ELSE IF keys[i] \notin DOMAIN dict THEN KeyError(keys[i])
    ELSE IF keys[i] = "order_date" /\ ~fromisoformat(dict[keys[i]]).ok THEN ValueError
    ELSE ReadKeys(dict, keys, i + 1)

OnlineOrder_keys ==
    <<"order_id", "price", "customer", "order_date", "status", "items", "payment_method">>
PhoneOrder_keys ==
    <<"order_id", "price", "customer", "order_date", "status", "operator_name">>
StoreOrder_keys ==
    <<"order_id", "price", "customer", "order_date", "status", "store_location">>

Failed(exc) == [order |-> NoOrder, raised |-> exc]
Returned(order) == [order |-> order, raised |-> NoException]

OnlineOrder_from_dict(dict) ==
    LET exc == ReadKeys(dict, OnlineOrder_keys, 1)
    IN  IF exc # NoException THEN Failed(exc)
        ELSE Returned(OnlineOrder(dict.order_id, dict.price, dict.customer,
                                  fromisoformat(dict.order_date).value, dict.status,
                                  dict.items, dict.payment_method))

\* variant of PhoneOrder.from_dict that reads operator_name with a default
PhoneOrder_from_dict_default(dict) ==
    LET exc == ReadKeys(dict, SubSeq(PhoneOrder_keys, 1, 5), 1)
    IN  IF exc # NoException THEN Failed(exc)
        ELSE Returned(PhoneOrder(dict.order_id, dict.price, dict.customer,
                                 fromisoformat(dict.order_date).value, dict.status,
                                 IF "operator_name" \in DOMAIN dict
                                 THEN dict.operator_name ELSE ""))

PhoneOrder_from_dict(dict) ==
    LET exc == ReadKeys(dict, PhoneOrder_keys, 1)
    IN  IF exc # NoException THEN Failed(exc)
        ELSE Returned(PhoneOrder(dict.order_id, dict.price, dict.customer,
                                 fromisoformat(dict.order_date).value, dict.status,
                                 dict.operator_name))

StoreOrder_from_dict(dict) ==
    LET exc == ReadKeys(dict, StoreOrder_keys, 1)
    IN  IF exc # NoException THEN Failed(exc)
        ELSE Returned(StoreOrder(dict.order_id, dict.price, dict.customer,
                                 fromisoformat(dict.order_date).value, dict.status,
                                 dict.store_location))

Classes == {"OnlineOrder", "PhoneOrder", "StoreOrder"}

\* c.from_dict(dict) for a class object c
from_dict(c, dict) ==
    CASE c = "OnlineOrder" -> OnlineOrder_from_dict(dict)
      [] c = "PhoneOrder"  -> PhoneOrder_from_dict(dict)
      [] c = "StoreOrder"  -> StoreOrder_from_dict(dict)

InvalidOrderError(order_type) ==
    [type |-> "InvalidOrderError", arg |-> <<"Unknown order type: ", order_type>>]

\* variant of the factory that falls back to OnlineOrder for an unknown tag
create_order_fallback(order_type) ==
    IF order_type = "phone" THEN [cls |-> "PhoneOrder", raised |-> NoException]
    ELSE IF order_type = "store" THEN [cls |-> "StoreOrder", raised |-> NoException]
    ELSE [cls |-> "OnlineOrder", raised |-> NoException]

\* OrderFactory.create_order
create_order(order_type) ==
    IF order_type = "online" THEN [cls |-> "OnlineOrder", raised |-> NoException]
    ELSE IF order_type = "phone" THEN [cls |-> "PhoneOrder", raised |-> NoException]
    ELSE IF order_type = "store" THEN [cls |-> "StoreOrder", raised |-> NoException]
    ELSE [cls |-> None, raised |-> InvalidOrderError(order_type)]

\* main, line 284: create_order(d["type"]).from_dict(d)
restore(dict) ==
    IF "type" \notin DOMAIN dict
    THEN [cls |-> None, order |-> NoOrder, raised |-> KeyError("type")]
    ELSE LET made == create_order(dict.type)
         IN  IF made.raised # NoException
             THEN [cls |-> None, order |-> NoOrder, raised |-> made.raised]
             ELSE LET res == from_dict(made.cls, dict)
                  IN  [cls |-> made.cls, order |-> res.order, raised |-> res.raised]

-----------------------------------------------------------------------------
(* Customer *)

\* variant of place_order that skips an order already in the history
place_order_dedup(history, order) ==
    IF \E i \in 1..Len(history) : history[i] = order
    THEN history
    ELSE Append(history, order)

\* Customer.place_order: self.order_history.append(order)
place_order(history, order) == Append(history, order)

\* Customer.get_order_history: return self.order_history
get_order_history(history) == history

-----------------------------------------------------------------------------
(* Cancellation chain *)

Handlers == {"operator", "manager", "admin"}

\* CancellationRequest.__init__
CancellationRequest(order, reason) ==
    [order |-> order, reason |-> reason, approved |-> FALSE]

\* variant of set_next that returns the object it was called on
set_next_returns_self(links, self, handler) ==
    [links |-> [links EXCEPT ![self] = handler], ret |-> self]

\* Handler.set_next: records the handler and returns it.  The result is the
\* pair of the new links and the returned object.
set_next(links, self, handler) ==
    [links |-> [links EXCEPT ![self] = handler], ret |-> handler]

\* The state a handle call works on: the two heaps, plus the call's history
\* (trace: the handlers whose handle was entered, in order; by: the handlers
\* that executed `request.approved = True`; raised: the exception, if any).
RECURSIVE handle(_, _, _, _)

\* variant of Approve that also marks the order as cancelled
Approve_cancels_order(st, self, r) ==
    [st EXCEPT !.requests[r].approved = TRUE, !.by = Append(@, self),
               !.orders[st.requests[r].order].status = "cancelled"]

\* `request.approved = True`
Approve(st, self, r) ==
    [st EXCEPT !.requests[r].approved = TRUE, !.by = Append(@, self)]

\* the call self._next_handler.handle(request), guarded by `if self._next_handler`
Delegate(st, self, r, depth) ==
    IF next_handler[self] # None
    THEN handle(next_handler[self], st, r, depth + 1)
    ELSE st

\* variant of the Operator that delegates without looking at the reason
CallCenterOperator_handle_always_delegates(st, self, r, depth) ==
    Delegate(st, self, r, depth)

\* variant of the Operator whose rejection resets approved
CallCenterOperator_handle_reject_clears(st, self, r, depth) ==
    IF Truthy(st.requests[r].reason)
    THEN Delegate(st, self, r, depth)
    ELSE [st EXCEPT !.requests[r].approved = FALSE]

CallCenterOperator_handle(st, self, r, depth) ==
    IF Truthy(st.requests[r].reason)
    THEN Delegate(st, self, r, depth)
    ELSE st

\* variant of the Manager that escalates from 500 on
Manager_handle_escalates_at_limit(st, self, r, depth) ==
    IF st.orders[st.requests[r].order].price >= 500
    THEN Delegate(st, self, r, depth)
    ELSE Approve(st, self, r)

Manager_handle(st, self, r, depth) ==
    IF st.orders[st.requests[r].order].price > 500
    THEN Delegate(st, self, r, depth)
    ELSE Approve(st, self, r)

Admin_handle(st, self, r, depth) ==
    Approve(st, self, r)

\* dynamic dispatch on the handler's class; a call nested deeper than the
\* interpreter's recursion limit raises RecursionError
handle(self, st, r, depth) ==
    IF depth > RecursionLimit
    THEN [st EXCEPT !.raised = "RecursionError"]
    ELSE LET entered == [st EXCEPT !.trace = Append(@, self)]
         IN  CASE self = "operator" -> CallCenterOperator_handle(entered, self, r, depth)
               [] self = "manager"  -> Manager_handle(entered, self, r, depth)
               [] self = "admin"    -> Admin_handle(entered, self, r, depth)

\* check_permission: "suppose everybody passes"
check_permission(user) == TRUE

CallState == [requests |-> requests, orders |-> orders,
              trace |-> <<>>, by |-> <<>>, raised |-> "none"]

\* variant of the entry sequence that calls the chain without the check
main_cancel_unchecked(st, r) ==
    handle("operator", st, r, 1)

\* main, lines 274-275: `if check_permission(operator): operator.handle(request)`.
\* The check is the first event of the trace.
main_cancel(st, r) ==
    LET ok == check_permission("operator")
        checked == [st EXCEPT !.trace = Append(@, IF ok THEN "check_permission:True"
                                                         ELSE "check_permission:False")]
    IN  IF ok THEN handle("operator", checked, r, 1) ELSE checked

-----------------------------------------------------------------------------
(* Actions of the chain and the ledger *)

NoCall == [op |-> "none"]

Init ==
    /\ orders = <<>>
    /\ order_history = <<>>
    /\ placed = <<>>
    /\ requests = <<>>
    /\ next_handler = [h \in Handlers |-> None]
    /\ last = NoCall
    /\ data = NoRecord
    /\ restored = NoOrder
    /\ out = NoRecord
    /\ cls = None
    /\ raised = NoException

\* an Order object is constructed (at most `limit` of them)
NewOrder(o, limit) ==
    /\ Len(orders) < limit
    /\ orders' = Append(orders, o)
    /\ last' = [op |-> "new_order"]
    /\ UNCHANGED <<order_history, placed, requests, next_handler, codecVars>>

\* customer.place_order(order)
PlaceOrder(o) ==
    /\ Len(placed) < MaxHistory
    /\ order_history' = place_order(order_history, o)
    /\ placed' = Append(placed, o)
    /\ last' = [op |-> "place_order", order |-> o]
    /\ UNCHANGED <<orders, requests, next_handler, codecVars>>

\* customer.get_order_history()
GetOrderHistory ==
    /\ last' = [op |-> "get_order_history", ret |-> get_order_history(order_history)]
    /\ UNCHANGED <<orders, order_history, placed, requests, next_handler, codecVars>>

\* CancellationRequest(order, reason)
NewRequest(o, reason) ==
    /\ Len(requests) < MaxRequests
    /\ requests' = Append(requests, CancellationRequest(o, reason))
    /\ last' = [op |-> "new_request", req |-> Len(requests) + 1]
    /\ UNCHANGED <<orders, order_history, placed, next_handler, codecVars>>

\* self.set_next(handler)
SetNext(self, handler) ==
    LET res == set_next(next_handler, self, handler)
    IN  /\ next_handler' = res.links
        /\ last' = [op |-> "set_next", self |-> self, handler |-> handler,
                    ret |-> res.ret]
        /\ UNCHANGED <<orders, order_history, placed, requests, codecVars>>

\* the effect of a finished call on the heaps and the history
Called(op, r, res) ==
    /\ requests' = res.requests
    /\ orders' = res.orders
    /\ last' = [op |-> op, req |-> r, trace |-> res.trace, by |-> res.by,
                raised |-> res.raised,
                before |-> requests[r].approved, after |-> res.requests[r].approved]
    /\ UNCHANGED <<order_history, placed, next_handler, codecVars>>

\* self.handle(request), called on any handler object
Handle(self, r) == Called("handle", r, handle(self, CallState, r, 1))

\* the entry sequence of main
MainCancel(r) == Called("main", r, main_cancel(CallState, r))

Next ==
    \/ \E o \in SampleOrders : NewOrder(o, MaxOrders)
    \/ \E o \in 1..Len(orders), reason \in Reasons : NewRequest(o, reason)
    \/ \E self \in Handlers, handler \in Handlers : SetNext(self, handler)
    \/ \E self \in Handlers, r \in 1..Len(requests) : Handle(self, r)
    \/ \E r \in 1..Len(requests) : MainCancel(r)

Spec == Init /\ [][Next]_vars

\* the customer's ledger
NextLedger ==
    \/ \E o \in SampleOrders : NewOrder(o, MaxLedgerOrders)
    \/ \E o \in 1..Len(orders) : PlaceOrder(o)
    \/ GetOrderHistory

SpecLedger == Init /\ [][NextLedger]_vars

-----------------------------------------------------------------------------
(* The codec and the factory: an order is written to a record, the stored   *)
(* record may lose or change fields before it is read, and it is read back  *)
(* as main does (factory, then from_dict) or by from_dict of a given class. *)

DateSamples ==
    { DateTime(2024, 1, 5, 10, 30, 0, 0),
      DateTime(2024, 12, 31, 23, 59, 59, 999999),
      DateTime(999, 2, 28, 0, 0, 0, 5),
      DateTime(2024, 2, 29, 9, 5, 7, 120000) }

\* orders with valid attributes, every variant with every sample date
ValidOrders ==
    UNION { { OnlineOrder(1, 100, "ivan", dt, "created",
                          <<[name |-> "laptop", qty |-> 1]>>, "card"),
              OnlineOrder(42, 501, "anna", dt, "paid", <<>>, "cash"),
              PhoneOrder(2, 500, "ivan", dt, "created", "olga"),
              PhoneOrder(7, 0, "anna", dt, "paid", ""),
              StoreOrder(3, 501, "ivan", dt, "created", "moscow"),
              StoreOrder(8, 100, "anna", dt, "paid", "kazan") } : dt \in DateSamples }

\* tags the factory is asked for
Tags == {"online", "phone", "store", "Online", "web", ""}

Str(dt) == isoformat(dt)

\* order_date strings that isoformat does not produce: a date alone, a space
\* as separator, a fraction of zeros, a month out of range, not a date
OtherDates ==
    { SubSeq(Str(DateTime(2024, 1, 5, 0, 0, 0, 0)), 1, 10),
      [Str(DateTime(2024, 1, 5, 10, 30, 0, 0)) EXCEPT ![11] = " "],
      Str(DateTime(2024, 1, 5, 10, 30, 0, 0)) \o <<".", "0", "0", "0">>,
      Str(DateTime(2024, 13, 5, 10, 30, 0, 0)),
      <<"n", "/", "a">> }

Stored == to_dict(orders[1])

\* how many fields of the stored record were removed or overwritten
Edits ==
    Cardinality(DOMAIN Stored \ DOMAIN data)
    + Cardinality({k \in {"order_date", "type"} : k \in DOMAIN data /\ data[k] # Stored[k]})

Unread == last.op \in {"to_dict", "drop", "set_date", "set_type"}

InitCodec ==
    /\ orders \in {<<o>> : o \in ValidOrders}
    /\ order_history = <<>>
    /\ placed = <<>>
    /\ requests = <<>>
    /\ next_handler = [h \in Handlers |-> None]
    /\ last = NoCall
    /\ data = NoRecord
    /\ restored = NoOrder
    /\ out = NoRecord
    /\ cls = None
    /\ raised = NoException

\* main, line 277: order.to_dict()
Save ==
    /\ last = NoCall
    /\ data' = to_dict(orders[1])
    /\ last' = [op |-> "to_dict"]
    /\ UNCHANGED <<restored, out, cls, raised>>
    /\ UNCHANGED <<orders, order_history, placed, requests, next_handler>>

\* the stored record loses a field
DropField(k) ==
    /\ Unread /\ Edits < MaxEdits
    /\ k \in DOMAIN data
    /\ data' = [f \in DOMAIN data \ {k} |-> data[f]]
    /\ last' = [op |-> "drop"]
    /\ UNCHANGED <<restored, out, cls, raised>>
    /\ UNCHANGED <<orders, order_history, placed, requests, next_handler>>

\* the stored record gets another order_date string
SetDate(s) ==
    /\ Unread /\ Edits < MaxEdits
    /\ "order_date" \in DOMAIN data /\ data.order_date = Stored.order_date
    /\ data' = [data EXCEPT !.order_date = s]
    /\ last' = [op |-> "set_date"]
    /\ UNCHANGED <<restored, out, cls, raised>>
    /\ UNCHANGED <<orders, order_history, placed, requests, next_handler>>

\* the stored record gets another type tag
SetType(tag) ==
    /\ Unread /\ Edits < MaxEdits
    /\ "type" \in DOMAIN data /\ data.type = Stored.type /\ tag # Stored.type
    /\ data' = [data EXCEPT !.type = tag]
    /\ last' = [op |-> "set_type"]
    /\ UNCHANGED <<restored, out, cls, raised>>
    /\ UNCHANGED <<orders, order_history, placed, requests, next_handler>>

\* OrderFactory.create_order(order_type)
CreateOrder(order_type) ==
    LET res == create_order(order_type)
    IN  /\ data # NoRecord /\ Edits = 0
        /\ cls' = res.cls
        /\ raised' = res.raised
        /\ last' = [op |-> "create_order", order_type |-> order_type]
        /\ UNCHANGED <<data, restored, out>>
        /\ UNCHANGED <<orders, order_history, placed, requests, next_handler>>

\* main, line 284: OrderFactory.create_order(d["type"]).from_dict(d)
Restore ==
    LET res == restore(data)
    IN  /\ data # NoRecord
        /\ cls' = res.cls
        /\ restored' = res.order
        /\ raised' = res.raised
        /\ out' = NoRecord
        /\ last' = [op |-> "restore", cls |-> res.cls]
        /\ UNCHANGED data
        /\ UNCHANGED <<orders, order_history, placed, requests, next_handler>>

\* c.from_dict(d), called on a class directly
FromDict(c) ==
    LET res == from_dict(c, data)
    IN  /\ data # NoRecord
        /\ restored' = res.order
        /\ raised' = res.raised
        /\ out' = NoRecord
        /\ last' = [op |-> "from_dict", cls |-> c]
        /\ UNCHANGED <<data, cls>>
        /\ UNCHANGED <<orders, order_history, placed, requests, next_handler>>

\* to_dict() of the order just reconstructed
Reencode ==
    /\ last.op \in {"restore", "from_dict"}
    /\ restored # NoOrder
    /\ out' = to_dict(restored)
    /\ last' = [op |-> "reencode", via |-> last.op, cls |-> last.cls]
    /\ UNCHANGED <<data, restored, cls, raised>>
    /\ UNCHANGED <<orders, order_history, placed, requests, next_handler>>

NextCodec ==
    \/ Save
    \/ \E k \in DOMAIN Stored : DropField(k)
    \/ \E s \in OtherDates : SetDate(s)
    \/ \E tag \in Tags : SetType(tag)
    \/ \E order_type \in Tags : CreateOrder(order_type)
    \/ Restore
    \/ \E c \in Classes : FromDict(c)
    \/ Reencode

SpecCodec == InitCodec /\ [][NextCodec]_vars

-----------------------------------------------------------------------------
(* Properties of the cancellation chain *)

IsCall == last.op \in {"handle", "main"}

\* the handlers whose handle was entered by the last call, in order
IsHandler(e) == e \in Handlers
Visited == SelectSeq(last.trace, IsHandler)

\* the last call entered the chain at the Operator
EnteredAtOperator == IsCall /\ Visited # <<>> /\ Head(Visited) = "operator"

\* the chain is wired Operator -> Manager -> Admin
Wired == next_handler["operator"] = "manager" /\ next_handler["manager"] = "admin"

LastRequest == requests[last.req]
LastOrder == orders[LastRequest.order]

\* C1: on the chain Operator -> Manager -> Admin, a request with an empty
\* reason stops at the Operator: only the Operator's handle is entered, no
\* handler approves, and approved remains as it was (false for a request
\* that was not approved before), whatever the order's price.
C1_EmptyReasonStopsAtOperator ==
    (EnteredAtOperator /\ Wired /\ LastRequest.reason = "") =>
        /\ Visited = <<"operator">>
        /\ last.by = <<>>
        /\ last.raised = "none"
        /\ last.after = last.before
        /\ (~last.before => ~LastRequest.approved)

C1_Witness ==
    /\ EnteredAtOperator /\ Wired /\ LastRequest.reason = ""
    /\ LastOrder.price > 500
    /\ ~LastRequest.approved

\* C2: on the chain Operator -> Manager -> Admin, a request with a non-empty
\* reason is approved by the Manager without the Admin being entered when
\* price <= 500, and is passed by the Manager to the Admin, who approves it,
\* when price > 500.
C2_ManagerLimit ==
    (EnteredAtOperator /\ Wired /\ LastRequest.reason # "") =>
        /\ LastOrder.price <= 500 =>
              /\ Visited = <<"operator", "manager">>
              /\ last.by = <<"manager">>
        /\ LastOrder.price > 500 =>
              /\ Visited = <<"operator", "manager", "admin">>
              /\ last.by = <<"admin">>
        /\ last.after = TRUE
        /\ LastRequest.approved = TRUE
        /\ last.raised = "none"

C2_Witness ==
    /\ EnteredAtOperator /\ Wired /\ LastRequest.reason # ""
    /\ LastOrder.price = 501
    /\ Visited = <<"operator", "manager", "admin">>
    /\ LastRequest.approved

C2_WitnessBoundary ==
    /\ EnteredAtOperator /\ Wired /\ LastRequest.reason # ""
    /\ LastOrder.price = 500
    /\ Visited = <<"operator", "manager">>
    /\ LastRequest.approved

\* C7: approved is false when the request is constructed, becomes true only
\* in a handle call in which the Manager or the Admin approves, and once true
\* stays true under every later step.
C7_Step ==
    /\ Len(requests') >= Len(requests)
    /\ \A r \in 1..Len(requests') :
          IF r > Len(requests)
          THEN requests'[r].approved = FALSE
          ELSE /\ requests[r].approved => requests'[r].approved
               /\ (requests'[r].approved /\ ~requests[r].approved) =>
                     /\ last'.op \in {"handle", "main"}
                     /\ last'.req = r
                     /\ last'.by # <<>>
                     /\ \A i \in 1..Len(last'.by) : last'.by[i] \in {"manager", "admin"}

\* C7: every step satisfies C7_Step: approved starts false, only a Manager
\* or Admin approval in a handle call sets it, and it never reverts.
C7_ApprovedMonotone == [][C7_Step]_vars

\* an approved request went through a pass that the Operator rejected
C7_Witness ==
    /\ IsCall /\ Visited = <<"operator">>
    /\ LastRequest.reason = ""
    /\ last.before /\ LastRequest.approved

\* C8: a handle call changes no order and no request's order or reason,
\* whatever its outcome; only approved may change.
C8_Step ==
    (last'.op \in {"handle", "main"}) =>
        /\ orders' = orders
        /\ Len(requests') = Len(requests)
        /\ \A r \in 1..Len(requests) :
              /\ requests'[r].order = requests[r].order
              /\ requests'[r].reason = requests[r].reason

\* C8: every handle call leaves the orders and each request's order and
\* reason as they were.
C8_OrderUntouched == [][C8_Step]_vars

C8_Witness ==
    /\ IsCall /\ last.by = <<"manager">> /\ ~last.before /\ last.after
    /\ LastOrder.status = "created"

\* C9: in the entry sequence a handler's handle is entered only after
\* check_permission returned true; if it returned false no handle is entered
\* and approved keeps its value.
C9_PermissionFirst ==
    (last.op = "main") =>
        /\ last.trace # <<>>
        /\ last.trace[1] \in {"check_permission:True", "check_permission:False"}
        /\ Visited # <<>> => last.trace[1] = "check_permission:True"
        /\ last.trace[1] = "check_permission:False" =>
              /\ Visited = <<>>
              /\ last.by = <<>>
              /\ last.after = last.before

C9_Witness ==
    /\ last.op = "main"
    /\ last.trace = <<"check_permission:True", "operator", "manager">>
    /\ last.after

\* C10: a handler that delegates while it has no next handler returns
\* normally and leaves approved unchanged; set_next(h) records h as the next
\* handler of the object it is called on, changes no other link and returns h.
DeadEnd ==
    /\ IsCall /\ Visited # <<>>
    /\ LET f == Visited[Len(Visited)]
       IN  /\ next_handler[f] = None
           /\ \/ f = "operator" /\ LastRequest.reason # ""
              \/ f = "manager" /\ LastOrder.price > 500

C10_DeadEndInv ==
    DeadEnd => /\ last.raised = "none"
               /\ last.by = <<>>
               /\ last.after = last.before
               /\ LastRequest.approved = last.before

C10_SetNextStep ==
    (last'.op = "set_next") =>
        /\ last'.ret = last'.handler
        /\ next_handler'[last'.self] = last'.handler
        /\ \A h \in Handlers \ {last'.self} : next_handler'[h] = next_handler[h]

\* C10: delegation without a next handler returns normally with approved
\* unchanged, and set_next records and returns its argument.
C10_UnwiredDelegation == []C10_DeadEndInv /\ [][C10_SetNextStep]_vars

\* a request with a reason ends unapproved: the Manager has no next handler
C10_Witness ==
    /\ DeadEnd /\ Visited = <<"operator", "manager">>
    /\ LastRequest.reason # "" /\ ~LastRequest.approved
    /\ last.raised = "none"

-----------------------------------------------------------------------------
(* Properties of the ledger *)

\* C6: the order history is the sequence of the orders placed, in the order
\* of the place_order calls, duplicates included, and get_order_history
\* returns exactly that sequence.
C6_LedgerAppendOnly ==
    /\ order_history = placed
    /\ last.op = "get_order_history" => last.ret = placed
    /\ last.op = "place_order" =>
          /\ order_history # <<>>
          /\ order_history[Len(order_history)] = last.order

C6_Witness ==
    /\ last.op = "get_order_history"
    /\ Len(last.ret) = 3
    /\ last.ret[1] = last.ret[3] /\ last.ret[1] # last.ret[2]

-----------------------------------------------------------------------------
(* Properties of the codec and the factory *)

\* the discriminant of each variant
TagOf(c) ==
    CASE c = "OnlineOrder" -> "online"
      [] c = "PhoneOrder"  -> "phone"
      [] c = "StoreOrder"  -> "store"

\* the fields a record of each variant must have
BaseFields == {"order_id", "price", "customer", "order_date", "status"}
RequiredFields(c) ==
    CASE c = "OnlineOrder" -> BaseFields \cup {"items", "payment_method"}
      [] c = "PhoneOrder"  -> BaseFields \cup {"operator_name"}
      [] c = "StoreOrder"  -> BaseFields \cup {"store_location"}

\* C3: to_dict emits the tag of the order's class, and an order's record,
\* read back through the factory and from_dict and written again with
\* to_dict, is the original record in every field, tag included.
C3_RoundTrip ==
    /\ last.op = "to_dict" =>
          /\ data.type = TagOf(orders[1].cls)
          /\ DOMAIN data = RequiredFields(orders[1].cls) \cup {"type"}
    /\ (last.op = "reencode" /\ last.via = "restore" /\ data = Stored) =>
          /\ out = data
          /\ out.type = TagOf(restored.cls)
          /\ restored.cls = orders[1].cls
    /\ (last.op = "restore" /\ data = Stored) =>
          /\ restored # NoOrder
          /\ raised = NoException

C3_Witness ==
    /\ last.op = "reencode" /\ last.via = "restore" /\ data = Stored
    /\ out = data
    /\ restored.cls = "StoreOrder"
    /\ orders[1].order_date.microsecond = 5
    /\ orders[1].order_date.year = 999

\* C4: the factory returns OnlineOrder, PhoneOrder, StoreOrder for "online",
\* "phone", "store" and raises the invalid-order error carrying the tag for
\* any other string, returning no class; a call changes nothing else.
KnownTags == {"online", "phone", "store"}

C4_Inv ==
    /\ last.op = "create_order" =>
          LET t == last.order_type
          IN  /\ t = "online" => (cls = "OnlineOrder" /\ raised = NoException)
              /\ t = "phone" => (cls = "PhoneOrder" /\ raised = NoException)
              /\ t = "store" => (cls = "StoreOrder" /\ raised = NoException)
              /\ t \notin KnownTags =>
                    /\ cls = None
                    /\ raised.type = "InvalidOrderError"
                    /\ raised.arg[Len(raised.arg)] = t
    /\ (last.op = "restore" /\ "type" \in DOMAIN data) =>
          IF data.type \in KnownTags
          THEN cls = None \/ TagOf(cls) = data.type
          ELSE /\ cls = None
               /\ restored = NoOrder
               /\ raised.type = "InvalidOrderError"
               /\ raised.arg[Len(raised.arg)] = data.type

C4_Step ==
    (last'.op = "create_order") =>
        UNCHANGED <<orders, order_history, placed, requests, next_handler,
                    data, restored, out>>

\* C4: the factory maps exactly the three tags to their classes, raises the
\* invalid-order error carrying the tag otherwise, and has no side effect.
C4_FactoryClosedSet == []C4_Inv /\ [][C4_Step]_vars

C4_Witness ==
    /\ last.op = "create_order" /\ last.order_type = "Online"
    /\ cls = None /\ raised.type = "InvalidOrderError"
    /\ restored # NoOrder

\* a reconstruction was attempted from a record that lacks a required field
\* of the class whose from_dict was called
FieldAbsent ==
    /\ last.op \in {"restore", "from_dict"}
    /\ last.cls # None
    /\ \E k \in RequiredFields(last.cls) : k \notin DOMAIN data

\* C5 as stated (the missing-field error read as Python's KeyError): a
\* record lacking a required field fails with the missing-field error and
\* yields no order.
C5_MissingFieldError ==
    FieldAbsent => (raised.type = "KeyError" /\ restored = NoOrder)

\* the fields in the order from_dict reads them
ReadOrder(c) ==
    <<"order_id", "price", "customer", "order_date", "status">>
    \o (CASE c = "OnlineOrder" -> <<"items", "payment_method">>
          [] c = "PhoneOrder"  -> <<"operator_name">>
          [] c = "StoreOrder"  -> <<"store_location">>)

\* C5 as amended: a record lacking a required field yields no order and no
\* default; the exception is KeyError naming the first absent required
\* field, unless order_date is present and malformed and every field read
\* before it is present, in which case it is the ValueError of fromisoformat.
C5_AbsentFieldFails ==
    FieldAbsent =>
        /\ restored = NoOrder
        /\ out = NoRecord
        /\ IF /\ {"order_id", "price", "customer", "order_date"} \subseteq DOMAIN data
              /\ ~fromisoformat(data.order_date).ok
           THEN raised.type = "ValueError"
           ELSE /\ raised.type = "KeyError"
                /\ raised.arg[1] \in RequiredFields(last.cls)
                /\ raised.arg[1] \notin DOMAIN data
                /\ LET keys == ReadOrder(last.cls)
                   IN  \A i, j \in 1..Len(keys) :
                          (keys[i] = raised.arg[1] /\ j < i) => keys[j] \in DOMAIN data

C5_Witness ==
    /\ FieldAbsent
    /\ last.op = "restore"
    /\ raised = KeyError("operator_name")
    /\ restored = NoOrder

C5_WitnessMalformed ==
    /\ FieldAbsent
    /\ "status" \notin DOMAIN data
    /\ raised.type = "ValueError"

====
